---------------------------- MODULE Spec2Model ----------------------------
(***************************************************************************)
(* Model of the RiskGuard trade-audit client.                              *)
(*                                                                         *)
(*   Home                 (frontend/src/app/page.tsx, lines 9-74)          *)
(*   TradeEvaluationForm  (frontend/src/app/page.tsx, lines 93-201)        *)
(*   DecisionReport       (frontend/src/components/DecisionReport.tsx)     *)
(*                                                                         *)
(* Numbers typed into the form are decimals; the model keeps them as       *)
(* integers in hundredths (1.0 is 100, the 2.0 cap is 200).  The            *)
(* nullable React states (report, error) are sequences of length at most   *)
(* one: <<>> is null and <<v>> is the value v.                             *)
(***************************************************************************)
EXTENDS Integers, Sequences, FiniteSets, TLC

(***************************************************************************)
(* Bounds and input domains.                                               *)
(***************************************************************************)
\* The session counter (a history variable) saturates here.
MaxSessions == 2

\* The two call counters (history variables) saturate here.
MaxCalls == 2

\* The hard cap of line 106, "> 2.0", in hundredths.
RiskCap == 200

\* Texts the user can leave in the two number inputs (lines 155-172).
RiskTexts == {"", "-0.5", "1", "2.0", "2.01", "2.5"}
BalanceTexts == {"", "10000"}

\* The options of the two selects (lines 132-133 and 145-147).
SymbolOptions == {"BTC/USDT", "ETH/USDT"}
StrategyOptions == {"TREND_FOLLOWING", "BREAKOUT", "MEAN_REVERSION"}
DisabledStrategyOptions == {"BREAKOUT"}

\* What the external risk engine may answer.
Colors == {"GREEN", "YELLOW", "RED", "PURPLE"}
BlockerLists == {<<>>, <<"Trend filter misaligned">>}
FailureKinds == {"transport", "status"}

null == <<>>
Some(v) == <<v>>
Truthy(x) == x # null

\* Number(e.target.value) of lines 158 and 170 on the texts above: the
\* empty text converts to 0, a numeral to its value (in hundredths).
Number(text) ==
    CASE text = ""      -> 0
      [] text = "-0.5"  -> -50
      [] text = "1"     -> 100
      [] text = "2.0"   -> 200
      [] text = "2.01"  -> 201
      [] text = "2.5"   -> 250
      [] text = "10000" -> 1000000

AdvisoryMessage == "High risk limits (>2%) disabled in MVP for safety."

(***************************************************************************)
(* State.                                                                  *)
(***************************************************************************)
VARIABLES
    report,     \* Home: useState(null), line 10
    loading,    \* Home: useState(false), line 11
    formData,   \* TradeEvaluationForm: the draft AuditRequest, lines 94-99
    error,      \* TradeEvaluationForm: the advisory, line 101
    inflight,   \* axios.post calls issued and not yet returned, line 17
    timers,     \* setTimeout callbacks scheduled and not yet fired, line 20
    alerted,    \* history: the last audit of this view ended in the alert of line 27
    session,    \* history: number of resets so far (saturating at MaxSessions)
    calls,      \* history: number of axios.post calls made, line 17 (saturating at MaxCalls)
    submits     \* history: number of clicks that ran onSubmit, line 185 (saturating at MaxCalls)

vars == <<report, loading, formData, error, inflight, timers, alerted, session,
          calls, submits>>

\* useState initial value of lines 94-99.
InitialFormData ==
    [symbol |-> "BTC/USDT",
     strategy_type |-> "TREND_FOLLOWING",
     account_balance |-> 1000000,
     risk_percentage |-> 100]

Init ==
    /\ report = null
    /\ loading = FALSE
    /\ formData = InitialFormData
    /\ error = null
    /\ inflight = <<>>
    /\ timers = <<>>
    /\ alerted = FALSE
    /\ session = 0
    /\ calls = 0
    /\ submits = 0

\* The form is rendered only while there is no report (line 52).
FormMounted == ~Truthy(report)

\* The four states of the audit session, read off the view's state.
Status ==
    IF loading THEN "Submitting"
    ELSE IF Truthy(report) THEN "Settled"
    ELSE IF alerted THEN "Failed"
    ELSE "Idle"

RemoveAt(s, i) == [j \in 1..(Len(s) - 1) |-> IF j < i THEN s[j] ELSE s[j + 1]]


(***************************************************************************)
(* TradeEvaluationForm.                                                    *)
(***************************************************************************)
\* Variants of handleChange with one slip each.
\* The rejecting branch sets the advisory but lacks its return.
handleChange_NoReturn(field, value) ==
    [formData |-> [formData EXCEPT ![field] = value],
     error |-> IF field = "risk_percentage"
               THEN (IF value > RiskCap THEN Some(AdvisoryMessage) ELSE null)
               ELSE error]

\* The risk check is missing altogether.
handleChange_NoGuard(field, value) ==
    [formData |-> [formData EXCEPT ![field] = value], error |-> error]

\* The comparison is >= instead of >.
handleChange_CapInclusive(field, value) ==
    IF field = "risk_percentage" /\ value >= RiskCap
    THEN [formData |-> formData, error |-> Some(AdvisoryMessage)]
    ELSE [formData |-> [formData EXCEPT ![field] = value],
          error |-> IF field = "risk_percentage" THEN null ELSE error]

\* setError(null) runs for every accepted edit, whatever the field.
handleChange_ClearsOnAnyField(field, value) ==
    IF field = "risk_percentage" /\ value > RiskCap
    THEN [formData |-> formData, error |-> Some(AdvisoryMessage)]
    ELSE [formData |-> [formData EXCEPT ![field] = value], error |-> null]

\* handleChange, lines 103-114: the next <<formData, error>> of the form.
handleChange(field, value) ==
    IF field = "risk_percentage" /\ value > RiskCap
    THEN [formData |-> formData, error |-> Some(AdvisoryMessage)]
    ELSE [formData |-> [formData EXCEPT ![field] = value],
          error |-> IF field = "risk_percentage" THEN null ELSE error]

\* Variant: the edit writes into the draft object in place, and the request
\* handed to axios.post is that same object.
Change_MutatesInPlace(field, value) ==
    /\ FormMounted
    /\ formData' = handleChange(field, value).formData
    /\ error' = handleChange(field, value).error
    /\ inflight' = [i \in DOMAIN inflight |->
                       [inflight[i] EXCEPT !.data = handleChange(field, value).formData]]
    /\ UNCHANGED <<report, loading, timers, alerted, session, calls, submits>>

\* An onChange event of one of the four controls runs handleChange.
Change(field, value) ==
    /\ FormMounted
    /\ formData' = handleChange(field, value).formData
    /\ error' = handleChange(field, value).error
    /\ UNCHANGED <<report, loading, inflight, timers, alerted, session, calls, submits>>

\* Asset Pair select, lines 127-134.
SelectSymbol == \E v \in SymbolOptions : Change("symbol", v)

\* Variant: the BREAKOUT option lacks its disabled attribute.
StrategySelectable_All(v) == TRUE

\* A disabled <option> cannot be chosen: choosing it fires no onChange.
StrategySelectable(v) == v \notin DisabledStrategyOptions

\* Strategy Profile select, lines 140-148.
SelectStrategy ==
    \E v \in StrategyOptions :
        IF StrategySelectable(v)
        THEN Change("strategy_type", v)
        ELSE FormMounted /\ UNCHANGED vars

\* Balance input, lines 155-160.
TypeBalance == \E t \in BalanceTexts : Change("account_balance", Number(t))

\* Risk input, lines 166-172.
TypeRisk == \E t \in RiskTexts : Change("risk_percentage", Number(t))

\* Variant: the button is disabled by isLoading alone.
RunAuditDisabled_IgnoresError == loading

\* disabled={isLoading || !!error}, line 186.
RunAuditDisabled == loading \/ Truthy(error)

(***************************************************************************)
(* Home.                                                                   *)
(***************************************************************************)
\* handleAudit up to the await, lines 13-17.
handleAudit(data) ==
    /\ loading' = TRUE
    /\ inflight' = Append(inflight, [data |-> data, session |-> session])
    /\ alerted' = FALSE
    /\ calls' = IF calls < MaxCalls THEN calls + 1 ELSE calls
    /\ UNCHANGED <<report, formData, error, timers, session>>

\* A click on RUN AUDIT, lines 184-186: a disabled button runs no handler.
ClickRunAudit ==
    /\ FormMounted
    /\ IF RunAuditDisabled
       THEN UNCHANGED vars
       ELSE /\ handleAudit(formData)
            /\ submits' = IF submits < MaxCalls THEN submits + 1 ELSE submits

\* The verdicts the external engine may return for a request.
Verdicts(data) ==
    { [asset |-> data.symbol,
       ui_components |->
           [traffic_light |-> [color |-> c],
            ai_analysis |-> [blockers |-> b]]] :
      c \in Colors, b \in BlockerLists }

\* Variant: setLoading(false) runs when the response arrives, before the timer.
ResponseArrives_StopsLoading(i, verdict) ==
    /\ timers' = Append(timers, [data |-> verdict,
                                 request |-> inflight[i].data,
                                 session |-> inflight[i].session])
    /\ inflight' = RemoveAt(inflight, i)
    /\ loading' = FALSE
    /\ UNCHANGED <<report, formData, error, alerted, session, calls, submits>>

\* Variant: setReport runs when the response arrives; only setLoading(false)
\* waits for the timer.
ResponseArrives_SetsReport(i, verdict) ==
    /\ timers' = Append(timers, [data |-> verdict,
                                 request |-> inflight[i].data,
                                 session |-> inflight[i].session])
    /\ inflight' = RemoveAt(inflight, i)
    /\ report' = Some(verdict)
    /\ UNCHANGED <<loading, formData, error, alerted, session, calls, submits>>

\* Variant: the response is received but no timer is set for it.
ResponseArrives_SetsNoTimer(i, verdict) ==
    /\ inflight' = RemoveAt(inflight, i)
    /\ UNCHANGED <<report, loading, formData, error, timers, alerted, session,
                   calls, submits>>

\* The await of line 17 resumes with a response: lines 20-23 schedule the timer.
ResponseArrives(i, verdict) ==
    /\ timers' = Append(timers, [data |-> verdict,
                                 request |-> inflight[i].data,
                                 session |-> inflight[i].session])
    /\ inflight' = RemoveAt(inflight, i)
    /\ UNCHANGED <<report, loading, formData, error, alerted, session, calls, submits>>

Respond ==
    \E i \in DOMAIN inflight :
        \E verdict \in Verdicts(inflight[i].data) : ResponseArrives(i, verdict)

\* Variant: the catch block lacks setLoading(false).
CallFails_KeepsLoading(i, kind) ==
    /\ inflight' = RemoveAt(inflight, i)
    /\ alerted' = TRUE
    /\ UNCHANGED <<report, loading, formData, error, timers, session, calls, submits>>

\* Variant: the catch block posts the same request again instead of giving up.
CallFails_Retries(i, kind) ==
    /\ inflight' = Append(RemoveAt(inflight, i), inflight[i])
    /\ calls' = IF calls < MaxCalls THEN calls + 1 ELSE calls
    /\ UNCHANGED <<report, loading, formData, error, timers, alerted, session,
                   submits>>

\* The await of line 17 throws (transport error or non-2xx): catch, lines 25-29.
CallFails(i, kind) ==
    /\ inflight' = RemoveAt(inflight, i)
    /\ alerted' = TRUE
    /\ loading' = FALSE
    /\ UNCHANGED <<report, formData, error, timers, session, calls, submits>>

Fail == \E i \in DOMAIN inflight : \E kind \in FailureKinds : CallFails(i, kind)

\* Variant: the timer callback lacks setLoading(false).
TimerCallback_KeepsLoading(i) ==
    /\ report' = Some(timers[i].data)
    /\ timers' = RemoveAt(timers, i)
    /\ UNCHANGED <<loading, formData, error, inflight, alerted, session, calls, submits>>

\* The timer callback, lines 20-23.
TimerCallback(i) ==
    /\ report' = Some(timers[i].data)
    /\ loading' = FALSE
    /\ timers' = RemoveAt(timers, i)
    /\ UNCHANGED <<formData, error, inflight, alerted, session, calls, submits>>

TimerFires == \E i \in DOMAIN timers : TimerCallback(i)

\* Variant: the button is rendered whether or not there is a report.
BackVisible_Always == TRUE

\* The Back to Cockpit button is rendered only with a report, line 41.
BackVisible == Truthy(report)

\* Variant: the form stays mounted (hidden) behind the report and keeps its state.
ClickBack_KeepsForm ==
    /\ BackVisible
    /\ report' = null
    /\ session' = IF session < MaxSessions THEN session + 1 ELSE session
    /\ UNCHANGED <<loading, formData, error, inflight, timers, alerted, calls,
                   submits>>

\* onClick of line 43; with report null line 52 mounts a new form, whose
\* state starts from the useState initial values of lines 94-101.
ClickBack ==
    /\ BackVisible
    /\ report' = null
    /\ formData' = InitialFormData
    /\ error' = null
    /\ session' = IF session < MaxSessions THEN session + 1 ELSE session
    /\ UNCHANGED <<loading, inflight, timers, alerted, calls, submits>>

Next ==
    \/ SelectSymbol
    \/ SelectStrategy
    \/ TypeBalance
    \/ TypeRisk
    \/ ClickRunAudit
    \/ Respond
    \/ Fail
    \/ TimerFires
    \/ ClickBack

Spec == Init /\ [][Next]_vars

\* The same view with a network and a timer that do their part: a call
\* awaited at line 17 eventually returns or throws, and a timer set at line
\* 20 eventually fires.
FairSpec ==
    /\ Spec
    /\ WF_vars(Respond \/ Fail)
    /\ WF_vars(TimerFires)

TypeOK ==
    /\ Len(report) <= 1
    /\ loading \in BOOLEAN
    /\ formData.symbol \in SymbolOptions
    /\ formData.strategy_type \in StrategyOptions
    /\ error \in {null, Some(AdvisoryMessage)}
    /\ alerted \in BOOLEAN
    /\ session \in 0..MaxSessions
    /\ calls \in 0..MaxCalls
    /\ submits \in 0..MaxCalls

(***************************************************************************)
(* DecisionReport (frontend/src/components/DecisionReport.tsx).            *)
(***************************************************************************)
\* Classification colors and blocker lists a response may carry, for the
\* rendering of a report: the four keys of statusColors, an unrecognized
\* name, the empty string, a name in the wrong case, and a name that every
\* JavaScript object inherits from Object.prototype.
ReportColors ==
    {"GREEN", "YELLOW", "RED", "GREY", "PURPLE", "", "green", "constructor"}
ReportBlockerLists ==
    {<<>>,
     <<"Trend filter misaligned">>,
     <<"Trend filter misaligned", "Stop too tight">>,
     <<"Stop too tight", "Trend filter misaligned">>}

\* Property names found on any object literal through its prototype.
ObjectPrototypeKeys ==
    {"constructor", "toString", "valueOf", "hasOwnProperty", "__proto__"}

\* obj[key] on an object literal: the own property, else the property
\* inherited from Object.prototype, else undefined.
Lookup(obj, key) ==
    IF key \in DOMAIN obj
    THEN [kind |-> "own", value |-> obj[key]]
    ELSE IF key \in ObjectPrototypeKeys
    THEN [kind |-> "inherited", value |-> key]
    ELSE [kind |-> "undefined", value |-> "undefined"]

\* statusColors, lines 21-26.
statusColors ==
    [GREEN  |-> "bg-green-500/10 border-green-500 text-green-400",
     YELLOW |-> "bg-yellow-500/10 border-yellow-500 text-yellow-400",
     RED    |-> "bg-red-500/10 border-red-500 text-red-400",
     GREY   |-> "bg-gray-500/10 border-gray-500 text-gray-400"]

\* The icon table of lines 28-33.
statusIcons ==
    [GREEN  |-> "CheckCircle",
     YELLOW |-> "AlertTriangle",
     RED    |-> "XCircle",
     GREY   |-> "Activity"]

\* StatusIcon, lines 28-33: the looked-up value when truthy, else Activity.
\* An inherited member is truthy and is not an icon component.
StatusIcon(color) ==
    LET found == Lookup(statusIcons, color)
    IN  IF found.kind = "undefined" THEN "Activity" ELSE found.value

BadgeBaseClass == "px-4 py-2 rounded-full border flex items-center gap-2"

\* className of the status badge, line 44: clsx joins its string arguments
\* and skips undefined and function arguments.
BadgeClassName(color) ==
    LET found == Lookup(statusColors, color)
    IN  IF found.kind = "own"
        THEN <<BadgeBaseClass, found.value>>
        ELSE <<BadgeBaseClass>>

\* Variant: the section is rendered for any list, empty or not.
BlockersSection_RendersEmpty(blockers) ==
    [rendered |-> Len(blockers) >= 0,
     items |-> [i \in 1..Len(blockers) |-> [key |-> i - 1, text |-> blockers[i]]]]

\* The Blockers List, lines 90-100: rendered for a non-empty list, one <li>
\* per blocker, in the order of the list.
BlockersSection(blockers) ==
    IF Len(blockers) > 0
    THEN [rendered |-> TRUE,
          items |-> [i \in 1..Len(blockers) |->
                        [key |-> i - 1, text |-> blockers[i]]]]
    ELSE [rendered |-> FALSE, items |-> <<>>]

\* What DecisionReport renders from its data prop, lines 17-103.
DecisionReport(data) ==
    [title |-> data.asset,
     badgeClassName |-> BadgeClassName(data.ui_components.traffic_light.color),
     icon |-> StatusIcon(data.ui_components.traffic_light.color),
     blockers |-> BlockersSection(data.ui_components.ai_analysis.blockers)]

\* Responses for the rendering of a report.
ReportVerdicts(data) ==
    { [asset |-> data.symbol,
       ui_components |->
           [traffic_light |-> [color |-> c],
            ai_analysis |-> [blockers |-> b]]] :
      c \in ReportColors, b \in ReportBlockerLists }

\* The rendering of reports: the view has made one call with the default
\* draft or the other symbol, the response has arrived with any of the
\* verdicts above, and the timer is pending; the timer callback stores the
\* verdict and line 69 renders it.
InitReport ==
    /\ report = null
    /\ loading = TRUE
    /\ formData \in { [InitialFormData EXCEPT !.symbol = s] : s \in SymbolOptions }
    /\ error = null
    /\ inflight = <<>>
    /\ timers \in { <<[data |-> v, request |-> formData, session |-> 0]>> :
                      v \in ReportVerdicts(formData) }
    /\ alerted = FALSE
    /\ session = 0
    /\ calls = 1
    /\ submits = 1

SpecReport == InitReport /\ [][TimerFires]_vars

(***************************************************************************)
(* Properties.                                                             *)
(***************************************************************************)
RiskValues == { Number(t) : t \in RiskTexts }
AcceptedRisk == { v \in RiskValues : v <= RiskCap }
RejectedRisk == { v \in RiskValues : v > RiskCap }

\* C1: in every reachable state the draft's risk_percentage is at most the
\* 2.0 cap, whatever edits were made since the default draft.
C1_DraftRiskWithinCap == formData.risk_percentage <= RiskCap

\* C1 witness: the draft sits at the cap itself and a later edit above it
\* has been refused (the advisory is showing).
C1_Witness ==
    /\ FormMounted
    /\ formData.risk_percentage = RiskCap
    /\ error = Some(AdvisoryMessage)

\* C2: every request handed to axios.post carries a risk_percentage of at
\* most 2.0 (each request sent is in flight from the moment it is sent).
C2_SentRiskWithinCap ==
    \A i \in DOMAIN inflight : inflight[i].data.risk_percentage <= RiskCap

\* C2 witness: after a reset, a request is in flight with the risk at the cap.
C2_Witness ==
    /\ session >= 1
    /\ \E i \in DOMAIN inflight : inflight[i].data.risk_percentage = RiskCap

\* C3: an edit of risk_percentage to v is accepted iff v <= 2.0 (zero and
\* negatives included): accepted, the draft's risk_percentage becomes v and
\* nothing else of the draft changes; rejected, the draft is left as it was.
C3_RiskEditAcceptedIffWithinCap ==
    [][\A t \in RiskTexts :
          Change("risk_percentage", Number(t)) =>
              IF Number(t) <= RiskCap
              THEN formData' = [formData EXCEPT !.risk_percentage = Number(t)]
              ELSE formData' = formData]_vars

\* C3 witness: a negative value was accepted and is retained after a
\* rejected edit.
C3_Witness ==
    /\ FormMounted
    /\ formData.risk_percentage < 0
    /\ error = Some(AdvisoryMessage)

\* C4: a rejected risk edit activates the advisory and changes nothing
\* else: not the draft, not the calls or timers outstanding, not the report,
\* not the session status.
C4_RejectedEditIsLocal ==
    [][\A v \in RejectedRisk :
          Change("risk_percentage", v) =>
              /\ error' = Some(AdvisoryMessage)
              /\ UNCHANGED <<formData, inflight, timers, report, loading>>
              /\ Status' = Status]_vars

\* C4 witness: an edit was rejected while a call was outstanding.
C4_Witness ==
    /\ error = Some(AdvisoryMessage)
    /\ Status = "Submitting"
    /\ Len(inflight) = 1

\* C5: while the form is mounted the advisory is set only by a rejected
\* risk edit and cleared only by an accepted risk edit, which always clears
\* it; edits of the other three fields leave it as it is.
C5_AdvisoryPersists ==
    [][/\ (FormMounted /\ Truthy(error) /\ ~Truthy(error')) =>
              \E v \in AcceptedRisk : Change("risk_percentage", v)
       /\ (FormMounted /\ ~Truthy(error) /\ Truthy(error')) =>
              \E v \in RejectedRisk : Change("risk_percentage", v)
       /\ \A v \in AcceptedRisk :
              Change("risk_percentage", v) => error' = null
       /\ \A v \in RejectedRisk :
              Change("risk_percentage", v) => error' = Some(AdvisoryMessage)
       /\ \A v \in SymbolOptions : Change("symbol", v) => error' = error
       /\ \A v \in StrategyOptions :
              Change("strategy_type", v) => error' = error
       /\ \A t \in BalanceTexts :
              Change("account_balance", Number(t)) => error' = error]_vars

\* C5 witness: the advisory is still active with the other three fields
\* all edited away from their defaults.
C5_Witness ==
    /\ FormMounted
    /\ error = Some(AdvisoryMessage)
    /\ formData.symbol = "ETH/USDT"
    /\ formData.strategy_type = "MEAN_REVERSION"
    /\ formData.account_balance = 0

\* Calls issued whose result has not yet been applied: awaiting the
\* response, or past it and awaiting the timer.
Outstanding == Len(inflight) + Len(timers)

\* C6: in Idle or Failed a click on RUN AUDIT with the advisory active
\* changes nothing (no call, no Submitting); with no advisory the button is
\* enabled and the click issues exactly one call, carrying the draft, and
\* the session becomes Submitting.
C6_SubmitGatedByAdvisory ==
    /\ [](Status \in {"Idle", "Failed"} =>
              (RunAuditDisabled <=> Truthy(error)))
    /\ [][(ClickRunAudit /\ Status \in {"Idle", "Failed"}) =>
              IF Truthy(error)
              THEN UNCHANGED vars
              ELSE /\ Status' = "Submitting"
                   /\ inflight' = Append(inflight, [data |-> formData,
                                                    session |-> session])
                   /\ UNCHANGED <<report, formData, error, timers>>]_vars

\* C6 witness: on the first form, the draft was edited to 2.0 with no
\* advisory left and the submit went through.
C6_Witness ==
    /\ session = 0
    /\ Status = "Submitting"
    /\ error = null
    /\ Len(inflight) = 1
    /\ inflight[1].data.risk_percentage = RiskCap
    /\ formData.risk_percentage = RiskCap

\* C7: a click on RUN AUDIT while Submitting changes nothing; at most one
\* call is outstanding at any moment, and the session shows Submitting for
\* as long as one is, the wait for the timer included.
C7_SingleOutstandingCall ==
    /\ [](Outstanding <= 1)
    /\ [](Outstanding = 1 => Status = "Submitting")
    /\ [][(ClickRunAudit /\ Status = "Submitting") => UNCHANGED vars]_vars

\* C7 witness: the response has arrived and the timer has not fired yet;
\* the session is still Submitting.
C7_Witness ==
    /\ Len(timers) = 1
    /\ Len(inflight) = 0
    /\ Status = "Submitting"

C9_VerdictOnlyWhenSettled ==
    /\ Truthy(report) => (~loading /\ Status = "Settled" /\ Outstanding = 0)
    /\ Status \in {"Idle", "Submitting", "Failed"} => report = null

\* C9 witness: a RED verdict is stored.
C9_Witness ==
    /\ Truthy(report)
    /\ report[1].ui_components.traffic_light.color = "RED"

\* C10: a failed call (either kind) takes the session from Submitting to
\* Failed, raises the alert and stores no verdict; in Failed with no
\* advisory the button is enabled and a click moves the session back to
\* Submitting.
C10_FailureThenResubmit ==
    /\ [][\A i \in DOMAIN inflight : \A kind \in FailureKinds :
              CallFails(i, kind) =>
                  /\ Status = "Submitting"
                  /\ Status' = "Failed"
                  /\ alerted'
                  /\ report' = null
                  /\ Outstanding' = 0]_vars
    /\ []((Status = "Failed" /\ ~Truthy(error)) => ~RunAuditDisabled)
    /\ [][(ClickRunAudit /\ Status = "Failed" /\ ~Truthy(error)) =>
              (Status' = "Submitting" /\ Outstanding' = 1)]_vars

\* C10 witness: the session is Failed with no verdict and no advisory.
C10_Witness ==
    /\ Status = "Failed"
    /\ report = null
    /\ error = null
    /\ alerted

\* C11: the client never retries on its own: the count of calls made never
\* exceeds the count of clicks that ran the submit handler, a call is made
\* only in the step of such a click, and a failure makes no call and
\* leaves none outstanding.
C11_NoAutomaticRetry ==
    /\ [](calls <= submits)
    /\ [][(calls' # calls) =>
              (ClickRunAudit /\ ~RunAuditDisabled /\ submits' # submits)]_vars
    /\ [][\A i \in DOMAIN inflight : \A kind \in FailureKinds :
              CallFails(i, kind) =>
                  (calls' = calls /\ Outstanding' = 0)]_vars
    /\ []((Status = "Failed") => Outstanding = 0)

\* C11 witness: one submit, one call, which failed; nothing is outstanding.
C11_Witness ==
    /\ Status = "Failed"
    /\ submits = 1
    /\ calls = 1
    /\ Outstanding = 0

\* C12 as claimed: in Settled and in Failed alike a reset can be taken, and
\* it returns the session to Idle with no verdict retained.
C12_ResetFromSettledOrFailed ==
    /\ [](Status \in {"Settled", "Failed"} => BackVisible)
    /\ [][ClickBack => (Status' = "Idle" /\ report' = null)]_vars

\* C12 as amended: the reset is offered in Settled and only there; taken,
\* it returns the session to Idle with no verdict retained and nothing
\* outstanding.  In Failed no reset is offered and no verdict is stored.
C12_ResetFromSettled ==
    /\ [](BackVisible <=> Status = "Settled")
    /\ []((Status = "Failed") => (~BackVisible /\ report = null))
    /\ [][ClickBack =>
              /\ Status = "Settled"
              /\ Status' = "Idle"
              /\ report' = null
              /\ Outstanding' = 0]_vars

\* C12 witness: a session was settled and reset; the view is Idle again.
C12_Witness ==
    /\ session >= 1
    /\ calls >= 1
    /\ Status = "Idle"
    /\ report = null

\* The color of the stored verdict and what line 69 renders from it.
ReportColor == report[1].ui_components.traffic_light.color
Rendered == DecisionReport(report[1])

\* C13: the badge style is defined for every color: GREEN, YELLOW and RED
\* get their own entries of statusColors and every other value, the empty
\* and the unrecognized strings included, gets the GREY entry.
C13_StyleTotalWithFallback ==
    Truthy(report) =>
        Rendered.badgeClassName =
            <<BadgeBaseClass,
              CASE ReportColor = "GREEN"  -> statusColors["GREEN"]
                [] ReportColor = "YELLOW" -> statusColors["YELLOW"]
                [] ReportColor = "RED"    -> statusColors["RED"]
                [] OTHER                  -> statusColors["GREY"]>>

\* C14: the icon is defined for every color: CheckCircle for GREEN,
\* AlertTriangle for YELLOW, XCircle for RED and Activity for every other
\* value.
C14_IconTotalWithFallback ==
    Truthy(report) =>
        Rendered.icon =
            CASE ReportColor = "GREEN"  -> "CheckCircle"
              [] ReportColor = "YELLOW" -> "AlertTriangle"
              [] ReportColor = "RED"    -> "XCircle"
              [] OTHER                  -> "Activity"

\* C15: the blockers section is rendered iff the verdict's list of blockers
\* is non-empty, and then shows one item per blocker in the list's order.
C15_BlockersSectionIffNonEmpty ==
    Truthy(report) =>
        LET blockers == report[1].ui_components.ai_analysis.blockers
            section == Rendered.blockers
        IN  /\ section.rendered <=> (Len(blockers) > 0)
            /\ section.rendered =>
                  /\ Len(section.items) = Len(blockers)
                  /\ \A i \in 1..Len(blockers) :
                        section.items[i].text = blockers[i]

\* C15 witness: a report with two blockers is rendered, second item second.
C15_Witness ==
    /\ Truthy(report)
    /\ Rendered.blockers.rendered
    /\ Len(Rendered.blockers.items) = 2
    /\ Rendered.blockers.items[2].text = "Trend filter misaligned"

\* C16: the draft's strategy_type is never the reserved BREAKOUT, and an
\* attempt to choose that option changes nothing.
C16_ReservedStrategyUnselectable ==
    /\ [](formData.strategy_type \notin DisabledStrategyOptions)
    /\ [](\A i \in DOMAIN inflight :
              inflight[i].data.strategy_type \notin DisabledStrategyOptions)
    /\ [][\A v \in DisabledStrategyOptions :
              (IF StrategySelectable(v)
               THEN Change("strategy_type", v)
               ELSE FormMounted /\ UNCHANGED vars) => UNCHANGED vars]_vars

\* C16 witness: the strategy select was used (the draft holds the other
\* selectable profile) on the first form, before any submit.
C16_Witness ==
    /\ FormMounted
    /\ submits = 0
    /\ formData.strategy_type = "MEAN_REVERSION"
    /\ formData.strategy_type \in StrategyOptions \ DisabledStrategyOptions

\* C17: the request in flight is the draft as it was at the click; a later
\* edit of the draft changes neither the request in flight nor a response
\* waiting for its timer; the verdict stored is the response to the one
\* request outstanding.
C17_VerdictMatchesSubmittedRequest ==
    /\ [][(FormMounted /\ (formData' # formData \/ error' # error)) =>
              (inflight' = inflight /\ timers' = timers)]_vars
    /\ [][(inflight' # inflight /\ Len(inflight') > Len(inflight)) =>
              inflight' = <<[data |-> formData, session |-> session]>>]_vars
    /\ [][(Len(timers') > Len(timers)) =>
              /\ Len(inflight) = 1
              /\ Len(timers') = 1
              /\ timers'[1].request = inflight[1].data
              /\ timers'[1].data \in Verdicts(inflight[1].data)]_vars
    /\ [][\A i \in DOMAIN timers :
              TimerCallback(i) =>
                  /\ Outstanding = 1
                  /\ report' = Some(timers[i].data)
                  /\ timers[i].data \in Verdicts(timers[i].request)]_vars

\* C17 witness: the response to a BTC/USDT request awaits its timer while
\* the draft has since been edited to ETH/USDT.
C17_Witness ==
    /\ Status = "Submitting"
    /\ Len(timers) = 1
    /\ timers[1].request.symbol = "BTC/USDT"
    /\ timers[1].data.asset = "BTC/USDT"
    /\ formData.symbol = "ETH/USDT"

\* C18: with calls that eventually return and timers that eventually fire,
\* a session that is Submitting eventually is Settled or Failed; the timer
\* callback of a response makes it Settled and a failed call makes it Failed.
C18_SubmittingEventuallyLeaves ==
    /\ (Status = "Submitting") ~> (Status \in {"Settled", "Failed"})
    /\ [][\A i \in DOMAIN timers :
              TimerCallback(i) => (Status = "Submitting" /\ Status' = "Settled")]_vars
    /\ [][\A i \in DOMAIN inflight : \A kind \in FailureKinds :
              CallFails(i, kind) => (Status = "Submitting" /\ Status' = "Failed")]_vars

\* C18 witness: a second session, after a reset, is Submitting with its
\* call still awaited.
C18_Witness ==
    /\ session >= 1
    /\ Status = "Submitting"
    /\ Len(inflight) = 1
    /\ Len(timers) = 0

\* C19: the reset is offered only with a verdict stored, when nothing is
\* outstanding, and a call is made only with no verdict stored; so no reset
\* is ever taken with a call or timer outstanding, and whatever is
\* outstanding belongs to the current session.
C19_ResetAndSubmitExclusive ==
    /\ [](BackVisible => (Truthy(report) /\ Outstanding = 0))
    /\ [][ClickBack => (Truthy(report) /\ Outstanding = 0 /\ Outstanding' = 0)]_vars
    /\ [][(calls' # calls \/ Len(inflight') > Len(inflight)) =>
              (report = null /\ report' = null)]_vars
    /\ [][(session' # session) =>
              (inflight = <<>> /\ timers = <<>>)]_vars
    /\ [](\A i \in DOMAIN inflight : inflight[i].session = session)

\* C19 witness: a verdict is stored in a session after a reset and the
\* reset is on offer again, with nothing outstanding.
C19_Witness ==
    /\ session >= 1
    /\ BackVisible
    /\ Truthy(report)
    /\ Outstanding = 0

\* C20: a reset (taken in Settled) leaves the form with the default draft
\* and no advisory, whatever the draft and the advisory were; a failed call
\* leaves the draft and the advisory as they were.
C20_ResetRestoresDefaultsFailureKeepsDraft ==
    /\ [][ClickBack =>
              /\ Status = "Settled"
              /\ formData' = [symbol |-> "BTC/USDT",
                              strategy_type |-> "TREND_FOLLOWING",
                              account_balance |-> 1000000,
                              risk_percentage |-> 100]
              /\ error' = null]_vars
    /\ [][\A i \in DOMAIN inflight : \A kind \in FailureKinds :
              CallFails(i, kind) => UNCHANGED <<formData, error>>]_vars

\* C20 witness: after a reset and new edits, a call of the new session has
\* failed; the edited draft and the advisory raised meanwhile are still there.
C20_Witness ==
    /\ session >= 1
    /\ Status = "Failed"
    /\ error = Some(AdvisoryMessage)
    /\ formData.symbol = "ETH/USDT"
    /\ formData.risk_percentage = RiskCap

=============================================================================
